---- MODULE Spec2Model ----
(***************************************************************************)
(* Benchmark score aggregation of Easy-LLM-Score (js/score-formulas.js,    *)
(* js/data-loader.js and the model selection of the page, js/main.js).     *)
(*                                                                         *)
(* Numbers.  Every score the code rounds with Math.round(x * 100) / 100    *)
(* is kept here as an integer number of hundredths: 73.33 is 7333, 100 is  *)
(* 10000.  Absolute benchmark values are hundredths too; LM Arena ratings  *)
(* are plain integers (Elo points).  null, undefined and an absent key are *)
(* the one value NULL; the number 0 stays 0, because the code tells the    *)
(* two apart in places.                                                    *)
(***************************************************************************)
EXTENDS Integers, Sequences, FiniteSets

VARIABLES
    items,       \* weightedAverage: the argument, a list of {value, weight}
    avg,         \* weightedAverage: the value returned, NotRun before the call
    score,       \* normalizeLMArena: the model's own raw rating
    allScores,   \* normalizeLMArena: the ratings of the candidate set
    normalized,  \* normalizeLMArena: the value returned, NotRun before the call
    previous,    \* normalizeLMArena: the value returned for the candidate set
                 \* as it was before its last model was added (history)
    model,       \* calculateScores: the model argument
    allModels,   \* calculateScores: the allModels argument
    scores,      \* calculateScores: the object returned, NoScores before the call
    dataModels,        \* loadModels: data.models, the list read from models.json
    fallbackValues,    \* loadModels: { accuracy, hallRate } of calculateFallbackValues
    filledModels,      \* loadModels: the list returned by fillMissingOmniscience
    modelsWithScores,  \* loadModels / selectDefaultModels: the scored models
    maxModels,         \* selectDefaultModels: the parameter maxModels
    maxPerProvider,    \* selectDefaultModels: the parameter maxPerProvider
    defaultModelIds,   \* selectDefaultModels: the ids selected, in selection order
    finalModels,       \* loadModels: the models with their isDefault flag
    loadedModels,      \* the list loadModels returned (the page's allModels)
    selectedModelIds,  \* the page: ids of the models shown in the charts
    pageState,         \* the page: "idle", "loaded" once loadModels has returned,
                       \* then "ready" (charts drawn) or "error"
    modelsJson,        \* data/models.json: the value of its `models` entry
    previousFinal,     \* loadModels: finalModels of the call before the last (history)
    passes,            \* loadModels: the number of calls that have returned models
    variant,           \* fetchWithRetry: the script whose copy of it runs
    maxRetries,        \* fetchWithRetry: the parameter maxRetries
    attempt,           \* fetchWithRetry: the loop variable i
    requests,          \* fetchWithRetry: the calls of fetch made so far
    fetchResult,       \* fetchWithRetry: how the call ended, "running" before
    categoryIndex,     \* fetch-lmarena main: the position in CATEGORIES
    rawFiles,          \* data/raw: the content of lmarena-<id>.json per category
    rawFilesBefore,    \* data/raw as it was when main started (history)
    categoryOutcome,   \* fetch-lmarena main: per category "pending", "fetched" or "failed"
    baseModels,        \* mergeData: the LM Arena base models still to be merged
    usedIds,           \* mergeData: usedIds
    mergedModels       \* mergeData: the ids of mergedModels, in order

\* the state of the scoring functions
scoreVars == <<items, avg, score, allScores, normalized, previous, model, allModels, scores>>
\* the state of the data loader and of the page
loaderVars ==
    <<dataModels, fallbackValues, filledModels, modelsWithScores, maxModels,
      maxPerProvider, defaultModelIds, finalModels, loadedModels, selectedModelIds,
      pageState>>

\* repeated calls of loadModels on one models.json
passVars == <<modelsJson, previousFinal, passes>>
\* the state of the fetch scripts
fetchVars ==
    <<variant, maxRetries, attempt, requests, fetchResult, categoryIndex, rawFiles,
      rawFilesBefore, categoryOutcome>>
\* the state of the merge script
mergeVars == <<baseModels, usedIds, mergedModels>>
scriptVars == <<fetchVars, mergeVars>>

vars == <<scoreVars, loaderVars, passVars, scriptVars>>

\* null / undefined / absent key
NULL == -1
\* "the function has not been called yet"
NotRun == -2

----------------------------------------------------------------------------
(* Bounds of the model *)

\* longest list handed to weightedAverage
MaxItems == 3
\* largest candidate set handed to normalizeLMArena
MaxScores == 3
\* longest allModels list handed to calculateScores
MaxModels == 2

\* values of an item: missing, a genuine 0, 60.00, 80.00
ItemValues == {NULL, 0, 6000, 8000}
ItemWeights == {1, 2, 3, 5}
\* raw ratings: missing (null), missing (0), and valid Elo ratings
Ratings == {100, 1500, 1600, 2000, 2100}
RatingInputs == {NULL, 0} \cup Ratings

RECURSIVE SeqsUpTo(_, _)
SeqsUpTo(S, n) ==
    IF n = 0 THEN {<<>>}
    ELSE LET shorter == SeqsUpTo(S, n - 1)
         IN  shorter \cup {Append(s, x) : s \in {t \in shorter : Len(t) = n - 1}, x \in S}

----------------------------------------------------------------------------
(* score-formulas.js *)

\* Math.round(num / den * 100) / 100 in hundredths, for num already in
\* hundredths: Math.round rounds to the nearest integer, a tie upwards.
\* The code divides in IEEE-754 doubles, where a quotient that is an exact
\* tie (x.xx5) may land just below the tie.  The inputs of the
\* specifications below are chosen so that no quotient they produce is
\* such a tie: on them this operator is the double result.
round2(num, den) == (2 * num + den) \div (2 * den)

\* the same loop with the missing-value test dropped: a missing value counts
\* as a 0 of full weight
RECURSIVE waLoopCountsMissing(_, _, _, _)
waLoopCountsMissing(its, i, totalScore, totalWeight) ==
    IF i > Len(its) THEN <<totalScore, totalWeight>>
    ELSE waLoopCountsMissing(its, i + 1,
             totalScore + (IF its[i].value = NULL THEN 0 ELSE its[i].value) * its[i].weight,
             totalWeight + its[i].weight)

\* the for loop of weightedAverage: <<totalScore, totalWeight>> after the
\* items from index i on have been visited
RECURSIVE waLoop(_, _, _, _)
waLoop(its, i, totalScore, totalWeight) ==
    IF i > Len(its) THEN <<totalScore, totalWeight>>
    ELSE IF its[i].value # NULL
         THEN waLoop(its, i + 1, totalScore + its[i].value * its[i].weight,
                     totalWeight + its[i].weight)
         ELSE waLoop(its, i + 1, totalScore, totalWeight)

\* the result for the totals t = <<totalScore, totalWeight>>, with null, not
\* 0, when every value is missing
averageOfNullWhenEmpty(t) == IF t[2] = 0 THEN NULL ELSE round2(t[1], t[2])

\* the result for the totals t = <<totalScore, totalWeight>> of the loop:
\* if (totalWeight === 0) return 0; return Math.round(...) / 100
averageOf(t) == IF t[2] = 0 THEN 0 ELSE round2(t[1], t[2])

weightedAverage(its) == averageOf(waLoop(its, 1, 0, 0))

\* allScores.filter(s => s !== null && s !== undefined && s !== 0)
validScores(all) == SelectSeq(all, LAMBDA s : s # NULL /\ s # 0)

\* Math.max(...validScores), Math.min(...validScores) of a non-empty list
maxScoreOf(valid) ==
    CHOOSE x \in {valid[i] : i \in 1..Len(valid)} :
        \A i \in 1..Len(valid) : valid[i] <= x
minScoreOf(valid) ==
    CHOOSE x \in {valid[i] : i \in 1..Len(valid)} :
        \A i \in 1..Len(valid) : valid[i] >= x

\* the scale the specification's examples use: win rate * 100
bradleyTerryScale100(d) ==
    CASE d = -2000 -> 10000 [] d = -1900 -> 10000 [] d = -1500 -> 9998
      [] d = -1400 -> 9997  [] d = -600  -> 9693  [] d = -500  -> 9468
      [] d = -400  -> 9091  [] d = -100  -> 6401  [] d = 0     -> 5000
      [] d = 100   -> 3599  [] d = 400   -> 909   [] d = 500   -> 532
      [] d = 600   -> 307   [] d = 1400  -> 3     [] d = 1500  -> 2
      [] d = 1900  -> 0     [] d = 2000  -> 0

\* Math.round(1 / (1 + Math.pow(10, d / 400)) * 200 * 100), in hundredths,
\* for d = maxScore - score.  10^(d/400) is irrational for most d, so the
\* value is tabulated: each entry is the IEEE-754 double result of the
\* source expression at that d, for every difference of two ratings of the
\* model (Ratings).
bradleyTerry(d) ==
    CASE d = -2000 -> 20000 [] d = -1900 -> 20000 [] d = -1500 -> 19996
      [] d = -1400 -> 19994 [] d = -600  -> 19387 [] d = -500  -> 18935
      [] d = -400  -> 18182 [] d = -100  -> 12801 [] d = 0     -> 10000
      [] d = 100   -> 7199  [] d = 400   -> 1818  [] d = 500   -> 1065
      [] d = 600   -> 613   [] d = 1400  -> 6     [] d = 1500  -> 4
      [] d = 1900  -> 0     [] d = 2000  -> 0

\* the part of normalizeLMArena after the filter, with the test of the
\* list made before the test of the model's own rating
normalizeValidListFirst(s, valid) ==
    IF Len(valid) = 0 THEN 0
    ELSE IF s = NULL \/ s = 0 THEN NULL
    ELSE IF maxScoreOf(valid) = minScoreOf(valid) THEN 10000
    ELSE bradleyTerry(maxScoreOf(valid) - s)

\* the part of normalizeLMArena after the filter, without a result of its
\* own for a list without spread: a division by max - min guarded with 0
normalizeValidNoSpreadZero(s, valid) ==
    IF s = NULL \/ s = 0 THEN NULL
    ELSE IF Len(valid) = 0 THEN 0
    ELSE IF maxScoreOf(valid) = minScoreOf(valid) THEN 0
    ELSE bradleyTerry(maxScoreOf(valid) - s)

\* the part of normalizeLMArena after the filter, anchored on the lowest
\* rating of the list
normalizeValidAnchoredOnMin(s, valid) ==
    IF s = NULL \/ s = 0 THEN NULL
    ELSE IF Len(valid) = 0 THEN 0
    ELSE IF maxScoreOf(valid) = minScoreOf(valid) THEN 10000
    ELSE bradleyTerry(minScoreOf(valid) - s)

\* normalizeLMArena for the list validScores already filtered
normalizeValid(s, valid) ==
    IF s = NULL \/ s = 0 THEN NULL
    ELSE IF Len(valid) = 0 THEN 0
    ELSE IF maxScoreOf(valid) = minScoreOf(valid) THEN 10000
    ELSE bradleyTerry(maxScoreOf(valid) - s)

normalizeLMArena(s, all) == normalizeValid(s, validScores(all))

\* benchmarks[key] for a key that may be absent
getBenchmark(benchmarks, key) ==
    LET value == benchmarks[key]
    IN  IF value = NULL \/ value = 0 THEN NULL ELSE value

\* the keys of lmArenaScores
LMArenaKeys ==
    {"LMArena-Text", "LMArena-Text-Creative-Writing", "LMArean-Text-Math",
     "LMArena-Text-Coding", "LMArena-Text-Expert", "LMArena-Text-Hard-Prompts",
     "LMArena-Text-Longer-Query", "LMArena-Text-Multi-Turn", "LMArena-Vision"}

\* the benchmarks read through getBenchmark or directly
AbsoluteKeys ==
    {"MMLU Pro", "GPQA Diamond", "Humanity's Last Exam", "AA-LCR", "AIME 2025",
     "LiveCodeBench", "SciCode", "MMMU Pro", "AA-Omniscience Accuracy",
     "AA-Omniscience Hallucination Rate"}

BenchmarkKeys == AbsoluteKeys \cup LMArenaKeys

\* lmArenaScores[key]: allModels.map(m => m.benchmarks?.[key])
lmArenaScores(all, key) == [i \in 1..Len(all) |-> all[i].benchmarks[key]]

\* getLMArena(key) with a missing rating counted as a score of 0
getLMArenaZeroForMissing(m, all, key) ==
    IF m.benchmarks[key] = NULL \/ m.benchmarks[key] = 0 THEN 0
    ELSE normalizeLMArena(m.benchmarks[key], lmArenaScores(all, key))

\* const getLMArena = (key) => normalizeLMArena(benchmarks[key], lmArenaScores[key])
getLMArena(m, all, key) ==
    normalizeLMArena(m.benchmarks[key], lmArenaScores(all, key))

\* the hallucination category's third item: 100 - hallucination rate,
\* missing only for null and undefined
hallucinationResistance(benchmarks) ==
    IF benchmarks["AA-Omniscience Hallucination Rate"] # NULL
    THEN 10000 - benchmarks["AA-Omniscience Hallucination Rate"]
    ELSE NULL

\* the kinds of item of a category's list
Abs(key, weight) == [kind |-> "getBenchmark", key |-> key, weight |-> weight]
Rel(key, weight) == [kind |-> "getLMArena", key |-> key, weight |-> weight]
Inv(key, weight) == [kind |-> "inverted", key |-> key, weight |-> weight]

\* the item lists of the object literal `scores`, in source order
categoryTerms(c) ==
    CASE c = "general_knowledge" ->
           <<Abs("MMLU Pro", 5), Abs("GPQA Diamond", 1), Rel("LMArena-Text", 2)>>
      [] c = "expert_knowledge" ->
           <<Abs("MMLU Pro", 2), Abs("GPQA Diamond", 4), Abs("Humanity's Last Exam", 6),
             Rel("LMArena-Text-Expert", 2), Rel("LMArena-Text-Hard-Prompts", 2)>>
      [] c = "general_reasoning" ->
           <<Abs("MMLU Pro", 4), Abs("GPQA Diamond", 3), Abs("Humanity's Last Exam", 2),
             Abs("AA-LCR", 3), Rel("LMArena-Text-Hard-Prompts", 1)>>
      [] c = "math_reasoning" ->
           <<Abs("GPQA Diamond", 2), Abs("AIME 2025", 7), Rel("LMArean-Text-Math", 4),
             Abs("MMLU Pro", 1), Abs("Humanity's Last Exam", 1)>>
      [] c = "coding" ->
           <<Abs("LiveCodeBench", 5), Abs("SciCode", 3), Rel("LMArena-Text-Coding", 3)>>
      [] c = "vision" ->
           <<Rel("LMArena-Text", 1), Abs("MMMU Pro", 8), Rel("LMArena-Vision", 3)>>
      [] c = "long_context" ->
           <<Abs("AA-LCR", 4), Rel("LMArena-Text-Longer-Query", 1),
             Rel("LMArena-Text-Multi-Turn", 1), Abs("AA-Omniscience Accuracy", 2),
             Abs("AA-Omniscience Hallucination Rate", 4)>>
      [] c = "hallucination" ->
           <<Abs("AA-LCR", 2), Abs("AA-Omniscience Accuracy", 4),
             Inv("AA-Omniscience Hallucination Rate", 7),
             Rel("LMArena-Text-Longer-Query", 2)>>
      [] c = "natural_speech" ->
           <<Abs("MMLU Pro", 3), Abs("AA-LCR", 2), Rel("LMArena-Text", 2),
             Rel("LMArena-Text-Creative-Writing", 2), Rel("LMArena-Text-Multi-Turn", 2)>>

\* the `value` expression of one item
termValue(m, all, term) ==
    CASE term.kind = "getBenchmark" -> getBenchmark(m.benchmarks, term.key)
      [] term.kind = "getLMArena" -> getLMArena(m, all, term.key)
      [] term.kind = "inverted" -> hallucinationResistance(m.benchmarks)

\* the object literals {value, weight} of a list of terms
itemsOf(m, all, terms) ==
    [i \in 1..Len(terms) |->
        [value |-> termValue(m, all, terms[i]), weight |-> terms[i].weight]]

\* the list handed to weightedAverage for category c
categoryItems(m, all, c) == itemsOf(m, all, categoryTerms(c))

SCORE_CATEGORIES ==
    <<"general_knowledge", "expert_knowledge", "general_reasoning",
      "math_reasoning", "coding", "vision", "long_context",
      "hallucination", "natural_speech">>

\* the disabled categories, fixed at 0
DisabledCategories == {"audio", "video"}

\* every key of the object calculateScores returns
ScoreKeys ==
    {SCORE_CATEGORIES[i] : i \in 1..Len(SCORE_CATEGORIES)}
        \cup DisabledCategories \cup {"overall"}

\* vision averaged for every model
categoriesToAverageAll(m) == SCORE_CATEGORIES

\* model.supportsVision !== false ? SCORE_CATEGORIES : all of them but vision
categoriesToAverage(m) ==
    IF m.supportsVision # FALSE THEN SCORE_CATEGORIES
    ELSE SelectSeq(SCORE_CATEGORIES, LAMBDA c : c # "vision")

\* categoryScores.reduce((a, b) => a + b, 0)
RECURSIVE sumSeq(_)
sumSeq(s) == IF Len(s) = 0 THEN 0 ELSE Head(s) + sumSeq(Tail(s))

\* scores.overall for the category scores already computed
overallOf(categoryScores) ==
    IF Len(categoryScores) > 0
    THEN round2(sumSeq(categoryScores), Len(categoryScores))
    ELSE 0

\* categoriesToAverage.map(c => scores[c] || 0)
categoryScoresOf(categories, toAverage) ==
    [i \in 1..Len(toAverage) |->
        IF categories[toAverage[i]] = NULL THEN 0 ELSE categories[toAverage[i]]]

\* the object returned: the categories and scores.overall
withOverall(m, categories) ==
    [c \in ScoreKeys |->
        IF c = "overall"
        THEN overallOf(categoryScoresOf(categories, categoriesToAverage(m)))
        ELSE categories[c]]

calculateScores(m, all) ==
    withOverall(m, [c \in ScoreKeys \ {"overall"} |->
                       IF c \in DisabledCategories THEN 0
                       ELSE weightedAverage(categoryItems(m, all, c))])

----------------------------------------------------------------------------
(* data-loader.js *)

\* The loader's models are records with the fields id, provider, benchmarks
\* and supportsVision.  An id is a positive integer (the merge script gives
\* every model of models.json an id of its own); a provider is a string,
\* "" when the field is missing or empty.

ACCURACY == "AA-Omniscience Accuracy"
HALL_RATE == "AA-Omniscience Hallucination Rate"

\* values.sort((a, b) => a - b): v put into the ascending list `sorted`
RECURSIVE insertAscending(_, _)
insertAscending(v, sorted) ==
    IF sorted = <<>> THEN <<v>>
    ELSE IF v <= Head(sorted) THEN <<v>> \o sorted
    ELSE <<Head(sorted)>> \o insertAscending(v, Tail(sorted))

RECURSIVE sortAscending(_)
sortAscending(arr) ==
    IF arr = <<>> THEN <<>>
    ELSE insertAscending(Head(arr), sortAscending(Tail(arr)))

\* models.map(m => m.benchmarks?.[key]).filter(v => v && v > 0).sort(...)
validValues(models, key) ==
    sortAscending(SelectSeq([i \in 1..Len(models) |-> models[i].benchmarks[key]],
                            LAMBDA v : v # NULL /\ v # 0 /\ v > 0))

\* Math.floor(n * p) for p = tenths / 10.  The code multiplies doubles;
\* for every n up to 40 and p = 0.3, 0.7 the double product has the same
\* floor as the exact one.
floorOfProduct(n, tenths) == (n * tenths) \div 10

\* percentile with the index rounded up instead of down
percentileCeil(arr, tenths) ==
    IF Len(arr) = 0 THEN 0
    ELSE LET index == (Len(arr) * tenths + 9) \div 10
         IN  arr[(IF index < Len(arr) - 1 THEN index ELSE Len(arr) - 1) + 1]

\* percentile without the test for the empty list
percentileNullWhenEmpty(arr, tenths) ==
    IF Len(arr) = 0 THEN NULL
    ELSE LET index == floorOfProduct(Len(arr), tenths)
         IN  arr[(IF index < Len(arr) - 1 THEN index ELSE Len(arr) - 1) + 1]

\* the closure `percentile` of calculateFallbackValues; arr[k + 1] is the
\* element of index k
percentile(arr, tenths) ==
    IF Len(arr) = 0 THEN 0
    ELSE LET index == floorOfProduct(Len(arr), tenths)
         IN  arr[(IF index < Len(arr) - 1 THEN index ELSE Len(arr) - 1) + 1]

\* fallback values read off another benchmark of the models
calculateFallbackValuesOfLCR(models) ==
    [accuracy |-> percentile(validValues(models, "AA-LCR"), 3),
     hallRate |-> percentile(validValues(models, "AA-LCR"), 7)]

calculateFallbackValues(models) ==
    [accuracy |-> percentile(validValues(models, ACCURACY), 3),
     hallRate |-> percentile(validValues(models, HALL_RATE), 7)]

\* a fill that overwrites measured values as well
fillEveryOmniscience(models, fallback) ==
    [i \in 1..Len(models) |->
        [models[i] EXCEPT !.benchmarks =
            [@ EXCEPT ![ACCURACY] = fallback.accuracy,
                      ![HALL_RATE] = fallback.hallRate]]]

\* !accuracy || accuracy === 0, !hallRate || hallRate === 0
fillMissingOmniscience(models, fallback) ==
    [i \in 1..Len(models) |->
        [models[i] EXCEPT !.benchmarks =
            [@ EXCEPT ![ACCURACY] = IF @ = NULL \/ @ = 0 THEN fallback.accuracy ELSE @,
                      ![HALL_RATE] = IF @ = NULL \/ @ = 0 THEN fallback.hallRate ELSE @]]]

\* the provider entry as it stands, with no default for a missing one
providerAsGiven(m) == m.provider

\* model.provider || 'Unknown'
providerOf(m) == IF m.provider = "" THEN "Unknown" ELSE m.provider

\* scores?.overall || 0
overallOrZero(m) ==
    IF m.scores["overall"] = NULL THEN 0 ELSE m.scores["overall"]

\* a sort that puts m behind the models that score the same
RECURSIVE insertDescendingUnstable(_, _)
insertDescendingUnstable(m, sorted) ==
    IF sorted = <<>> THEN <<m>>
    ELSE IF overallOrZero(Head(sorted)) >= overallOrZero(m)
         THEN <<Head(sorted)>> \o insertDescendingUnstable(m, Tail(sorted))
         ELSE <<m>> \o sorted

\* [...models].sort((a, b) => overall(b) - overall(a)): Array.prototype.sort
\* is stable, so m goes in front of the first model that does not score
\* more than m when the models are put in from the last to the first
RECURSIVE insertDescending(_, _)
insertDescending(m, sorted) ==
    IF sorted = <<>> THEN <<m>>
    ELSE IF overallOrZero(Head(sorted)) > overallOrZero(m)
         THEN <<Head(sorted)>> \o insertDescending(m, Tail(sorted))
         ELSE <<m>> \o sorted

RECURSIVE sortByOverall(_)
sortByOverall(models) ==
    IF models = <<>> THEN <<>>
    ELSE insertDescending(Head(models), sortByOverall(Tail(models)))

\* providerCount[provider] = providerCount[provider] || 0, read off the
\* models selected so far
providerCount(sorted, selected, provider) ==
    Cardinality({j \in 1..Len(sorted) :
                    sorted[j].id \in selected /\ providerOf(sorted[j]) = provider})

\* the loop without its break on maxModels
RECURSIVE selectLoopNoBreak(_, _, _, _, _)
selectLoopNoBreak(sorted, i, selected, maxM, maxPP) ==
    IF i > Len(sorted) THEN selected
    ELSE IF providerCount(sorted, selected, providerOf(sorted[i])) < maxPP
         THEN selectLoopNoBreak(sorted, i + 1, selected \cup {sorted[i].id}, maxM, maxPP)
         ELSE selectLoopNoBreak(sorted, i + 1, selected, maxM, maxPP)

\* the loop without the provider's count
RECURSIVE selectLoopNoProviderCap(_, _, _, _, _)
selectLoopNoProviderCap(sorted, i, selected, maxM, maxPP) ==
    IF i > Len(sorted) \/ Cardinality(selected) >= maxM THEN selected
    ELSE selectLoopNoProviderCap(sorted, i + 1, selected \cup {sorted[i].id}, maxM, maxPP)

\* the loop that stops at the first model whose provider is full
RECURSIVE selectLoopStopAtSkip(_, _, _, _, _)
selectLoopStopAtSkip(sorted, i, selected, maxM, maxPP) ==
    IF i > Len(sorted) \/ Cardinality(selected) >= maxM THEN selected
    ELSE IF providerCount(sorted, selected, providerOf(sorted[i])) < maxPP
         THEN selectLoopStopAtSkip(sorted, i + 1, selected \cup {sorted[i].id}, maxM, maxPP)
         ELSE selected

\* for (const model of sorted) { ... }: the ids pushed to `selected` from
\* the model of index i on
RECURSIVE selectLoop(_, _, _, _, _)
selectLoop(sorted, i, selected, maxM, maxPP) ==
    IF i > Len(sorted) \/ Cardinality(selected) >= maxM THEN selected
    ELSE IF providerCount(sorted, selected, providerOf(sorted[i])) < maxPP
         THEN selectLoop(sorted, i + 1, selected \cup {sorted[i].id}, maxM, maxPP)
         ELSE selectLoop(sorted, i + 1, selected, maxM, maxPP)

\* a selection whose provider counts are not reset: every provider starts
\* with the models counted by the call before
selectDefaultModelsCountsKept(models, maxM, maxPP) ==
    selectLoop(sortByOverall(models), 1, {}, maxM, maxPP - Cardinality(defaultModelIds))

\* new Set(selected)
selectDefaultModels(models, maxM, maxPP) ==
    selectLoop(sortByOverall(models), 1, {}, maxM, maxPP)

\* modelsWithScores.map(model => ({...model, isDefault: ids.has(model.id)}))
withIsDefault(models, ids) ==
    [i \in 1..Len(models) |->
        [id |-> models[i].id, provider |-> models[i].provider,
         benchmarks |-> models[i].benchmarks,
         supportsVision |-> models[i].supportsVision,
         scores |-> models[i].scores,
         isDefault |-> models[i].id \in ids]]

\* the input list written over by the fill
inputFilledInPlace(models, fallback) == fillMissingOmniscience(models, fallback)

\* the list handed to fillMissingOmniscience once it has returned: the
\* function works on { ...model.benchmarks } and returns { ...model,
\* benchmarks }, so the objects it was given keep every entry
inputAfterFill(models, fallback) == models

\* the list handed to selectDefaultModels once it has returned: the
\* function sorts [...models], so the list it was given keeps its order
inputAfterSelect(models) == models

\* every model scored against a list that holds nothing but itself
withScoresAlone(filled) ==
    [i \in 1..Len(filled) |->
        [id |-> filled[i].id, provider |-> filled[i].provider,
         benchmarks |-> filled[i].benchmarks,
         supportsVision |-> filled[i].supportsVision,
         scores |-> calculateScores(filled[i], <<filled[i]>>)]]

\* filledModels.map(model => ({...model, scores: calculateScores(model, filledModels)}))
withScores(filled) ==
    [i \in 1..Len(filled) |->
        [id |-> filled[i].id, provider |-> filled[i].provider,
         benchmarks |-> filled[i].benchmarks,
         supportsVision |-> filled[i].supportsVision,
         scores |-> calculateScores(filled[i], filled)]]

\* defaultOnly ? finalModels.filter(m => m.isDefault) : finalModels
returnedModels(final, defaultOnly) ==
    IF defaultOnly THEN SelectSeq(final, LAMBDA m : m.isDefault) ELSE final

\* the page's getSelectedModels()
getSelectedModels(all, selectedIds) == SelectSeq(all, LAMBDA m : m.id \in selectedIds)

----------------------------------------------------------------------------
(* The inputs of calculateScores *)

\* a benchmarks object without a single measurement
AllMissing == [k \in BenchmarkKeys |-> NULL]
\* a benchmarks object with every benchmark measured: 40.00, rating 1500
AllMeasured == [k \in BenchmarkKeys |-> IF k \in LMArenaKeys THEN 1500 ELSE 4000]

\* raw values of an absolute benchmark: missing, 0, 80.00, 100.00
AbsoluteInputs == {NULL, 0, 8000, 10000}

KeyInputs(k) == IF k \in LMArenaKeys THEN RatingInputs ELSE AbsoluteInputs

\* the model scored: one of the two objects above with one benchmark changed
ModelInputs ==
    UNION {{[benchmarks |-> [base EXCEPT ![k] = v], supportsVision |-> sv] :
               base \in {AllMissing, AllMeasured},
               v \in KeyInputs(k),
               sv \in BOOLEAN} : k \in BenchmarkKeys}

NoModel == [benchmarks |-> AllMissing, supportsVision |-> TRUE]
NoScores == [c \in {} |-> 0]

\* no fallback values computed yet
NoFallback == [accuracy |-> NotRun, hallRate |-> NotRun]

\* the data loader before loadModels is called; 20 and 4 are the default
\* values of selectDefaultModels' parameters
LoaderIdle ==
    /\ dataModels = <<>> /\ fallbackValues = NoFallback /\ filledModels = <<>>
    /\ modelsWithScores = <<>> /\ maxModels = 20 /\ maxPerProvider = 4
    /\ defaultModelIds = {} /\ finalModels = <<>>
    /\ loadedModels = <<>> /\ selectedModelIds = {}
    /\ pageState = "idle"

\* the scoring functions at rest
ScoreIdle ==
    /\ items = <<>> /\ avg = NotRun
    /\ score = NULL /\ allScores = <<>> /\ normalized = NotRun /\ previous = NotRun
    /\ model = NoModel /\ allModels = <<>> /\ scores = NoScores

\* no models.json read, no call of loadModels made
PassIdle == modelsJson = <<>> /\ previousFinal = <<>> /\ passes = 0

\* the fetch and merge scripts not started; 3 is the default of maxRetries
ScriptIdle ==
    /\ variant = "fetch-lmarena" /\ maxRetries = 3 /\ attempt = 0 /\ requests = 0
    /\ fetchResult = "running" /\ categoryIndex = 1
    /\ rawFiles = <<>> /\ rawFilesBefore = <<>> /\ categoryOutcome = <<>>
    /\ baseModels = <<>> /\ usedIds = {} /\ mergedModels = <<>>


----------------------------------------------------------------------------
(* weightedAverage applied to every bounded list of items *)

Items == [value : ItemValues, weight : ItemWeights]

InitWA ==
    /\ items \in SeqsUpTo(Items, MaxItems)
    /\ avg = NotRun
    /\ score = NULL /\ allScores = <<>> /\ normalized = NotRun /\ previous = NotRun
    /\ model = NoModel /\ allModels = <<>> /\ scores = NoScores
    /\ LoaderIdle
    /\ PassIdle /\ ScriptIdle

CallWeightedAverage ==
    /\ avg = NotRun
    /\ avg' = weightedAverage(items)
    /\ UNCHANGED <<items, score, allScores, normalized, previous, model, allModels, scores, loaderVars, passVars, scriptVars>>

NextWA == CallWeightedAverage

SpecWA == InitWA /\ [][NextWA]_vars

----------------------------------------------------------------------------
(* normalizeLMArena applied to every bounded rating and candidate set *)

InitNorm ==
    /\ score \in RatingInputs
    /\ allScores = <<>>
    /\ normalized = NotRun
    /\ previous = NotRun
    /\ items = <<>> /\ avg = NotRun
    /\ model = NoModel /\ allModels = <<>> /\ scores = NoScores
    /\ LoaderIdle
    /\ PassIdle /\ ScriptIdle

\* one call of normalizeLMArena(score, allScores)
CallNormalizeLMArena ==
    /\ normalized' = normalizeLMArena(score, allScores)
    /\ UNCHANGED <<score, allScores, previous, items, avg, model, allModels, scores, loaderVars, passVars, scriptVars>>

\* the candidate set gains a model whose rating is r, and the value is
\* computed again from the new list (calculateScores builds lmArenaScores
\* from the allModels of each call)
AddModelRating(r) ==
    /\ Len(allScores) < MaxScores
    /\ allScores' = Append(allScores, r)
    /\ normalized' = normalizeLMArena(score, allScores')
    /\ previous' = normalized
    /\ UNCHANGED <<score, items, avg, model, allModels, scores, loaderVars, passVars, scriptVars>>

NextNorm ==
    \/ CallNormalizeLMArena
    \/ \E r \in RatingInputs : AddModelRating(r)

SpecNorm == InitNorm /\ [][NextNorm]_vars

----------------------------------------------------------------------------
(* calculateScores applied to bounded models and candidate lists *)

\* the other models of a candidate list: one rating in every LM Arena
\* benchmark, nothing else measured
OtherRatings == {NULL, 100, 2000}
OtherModels ==
    {[benchmarks |-> [k \in BenchmarkKeys |-> IF k \in LMArenaKeys THEN r ELSE NULL],
      supportsVision |-> TRUE] : r \in OtherRatings}

Init ==
    /\ model \in ModelInputs
    /\ allModels \in {<<>>, <<model>>}
    /\ scores = NoScores
    /\ items = <<>> /\ avg = NotRun
    /\ score = NULL /\ allScores = <<>> /\ normalized = NotRun /\ previous = NotRun
    /\ LoaderIdle
    /\ PassIdle /\ ScriptIdle

\* the list of models grows by one before the call
AddOtherModel(m) ==
    /\ scores = NoScores
    /\ Len(allModels) < MaxModels
    /\ allModels' = Append(allModels, m)
    /\ UNCHANGED <<model, scores, items, avg, score, allScores, normalized, previous, loaderVars, passVars, scriptVars>>

\* one call of calculateScores(model, allModels)
CallCalculateScores ==
    /\ scores = NoScores
    /\ scores' = calculateScores(model, allModels)
    /\ UNCHANGED <<model, allModels, items, avg, score, allScores, normalized, previous, loaderVars, passVars, scriptVars>>

Next ==
    \/ \E m \in OtherModels : AddOtherModel(m)
    \/ CallCalculateScores

Spec == Init /\ [][Next]_vars

----------------------------------------------------------------------------
(* calculateFallbackValues and fillMissingOmniscience applied to bounded lists *)

\* longest list of models handed to calculateFallbackValues
MaxData == 4

\* (Accuracy, Hallucination Rate) of one model: missing, 0, or measured
OmnisciencePairs ==
    {<<NULL, NULL>>, <<0, 3000>>, <<1000, 0>>, <<2000, 4000>>,
     <<3000, 5000>>, <<4000, 2000>>, <<5000, 1000>>}

\* a model of models.json with every benchmark measured but the two given
DataModel(i, provider, pair, sv) ==
    [id |-> i, provider |-> provider,
     benchmarks |-> [AllMeasured EXCEPT ![ACCURACY] = pair[1], ![HALL_RATE] = pair[2]],
     supportsVision |-> sv]

OmniscienceList(pairs) ==
    [i \in 1..Len(pairs) |-> DataModel(i, "A", pairs[i], TRUE)]

\* Accuracy 10, 20, 30, 40, 50
ExamplePairs ==
    <<<<1000, 0>>, <<2000, 4000>>, <<3000, 5000>>, <<4000, 2000>>, <<5000, 1000>>>>

InitFallback ==
    /\ dataModels \in {OmniscienceList(pairs) :
                          pairs \in SeqsUpTo(OmnisciencePairs, MaxData) \cup {ExamplePairs}}
    /\ fallbackValues = NoFallback /\ filledModels = <<>>
    /\ modelsWithScores = <<>> /\ maxModels = 20 /\ maxPerProvider = 4
    /\ defaultModelIds = {} /\ finalModels = <<>>
    /\ loadedModels = <<>> /\ selectedModelIds = {} /\ pageState = "idle"
    /\ ScoreIdle
    /\ PassIdle /\ ScriptIdle

\* const fallbackValues = calculateFallbackValues(allModels)
CallCalculateFallbackValues ==
    /\ fallbackValues = NoFallback
    /\ fallbackValues' = calculateFallbackValues(dataModels)
    /\ UNCHANGED <<dataModels, filledModels, modelsWithScores, maxModels, maxPerProvider,
                   defaultModelIds, finalModels, loadedModels, selectedModelIds,
                   pageState, scoreVars,
                   passVars, scriptVars>>

\* const filledModels = fillMissingOmniscience(allModels, fallbackValues)
CallFillMissingOmniscience ==
    /\ fallbackValues # NoFallback
    /\ filledModels = <<>>
    /\ filledModels' = fillMissingOmniscience(dataModels, fallbackValues)
    /\ UNCHANGED <<dataModels, fallbackValues, modelsWithScores, maxModels, maxPerProvider,
                   defaultModelIds, finalModels, loadedModels, selectedModelIds,
                   pageState, scoreVars,
                   passVars, scriptVars>>

NextFallback ==
    \/ CallCalculateFallbackValues
    \/ CallFillMissingOmniscience

SpecFallback == InitFallback /\ [][NextFallback]_vars

----------------------------------------------------------------------------
(* selectDefaultModels applied to bounded lists of scored models *)

\* longest list of scored models drawn from the input sets
MaxScored == 3

\* provider fields: missing, and two names of which one is 'Unknown' itself
ProviderInputs == {"", "A", "Unknown"}
\* scores.overall: missing, 50.00, 80.00
OverallInputs == {NULL, 5000, 8000}

ScoredModel(i, provider, overall) ==
    [id |-> i, provider |-> provider, benchmarks |-> AllMissing,
     supportsVision |-> TRUE, scores |-> [overall |-> overall]]

ScoredInputs == ProviderInputs \X OverallInputs

ScoredList(kinds) ==
    [i \in 1..Len(kinds) |-> ScoredModel(i, kinds[i][1], kinds[i][2])]

\* ten models of ProviderX that score above the two models of the others
TenOfOneProvider ==
    [i \in 1..12 |->
        IF i <= 10 THEN ScoredModel(i, "ProviderX", 9000 + i)
        ELSE ScoredModel(i, IF i = 11 THEN "A" ELSE "", 5000)]

\* twenty-four models, four of each of six providers
SixProviders == <<"P1", "P2", "P3", "P4", "P5", "P6">>
TwentyFourModels ==
    [i \in 1..24 |-> ScoredModel(i, SixProviders[((i - 1) % 6) + 1], 5000 + i)]

InitSelect ==
    /\ \/ /\ modelsWithScores \in {ScoredList(kinds) : kinds \in SeqsUpTo(ScoredInputs, MaxScored)}
          /\ maxModels \in {0, 1, 2, 3}
          /\ maxPerProvider \in {1, 2}
       \/ /\ modelsWithScores \in {TenOfOneProvider, TwentyFourModels}
          /\ maxModels = 20
          /\ maxPerProvider = 4
    /\ defaultModelIds = {} /\ finalModels = <<>>
    /\ dataModels = <<>> /\ fallbackValues = NoFallback /\ filledModels = <<>>
    /\ loadedModels = <<>> /\ selectedModelIds = {} /\ pageState = "idle"
    /\ ScoreIdle
    /\ PassIdle /\ ScriptIdle

\* const defaultModelIds = selectDefaultModels(modelsWithScores, ...), then
\* the isDefault flags of finalModels
CallSelectDefaultModels ==
    /\ finalModels = <<>>
    /\ modelsWithScores # <<>>
    /\ defaultModelIds' = selectDefaultModels(modelsWithScores, maxModels, maxPerProvider)
    /\ finalModels' = withIsDefault(modelsWithScores, defaultModelIds')
    /\ UNCHANGED <<dataModels, fallbackValues, filledModels, modelsWithScores, maxModels,
                   maxPerProvider, loadedModels, selectedModelIds, pageState, scoreVars,
                   passVars, scriptVars>>

NextSelect == CallSelectDefaultModels

SpecSelect == InitSelect /\ [][NextSelect]_vars

----------------------------------------------------------------------------
(* loadModels and the page's model selection *)

\* longest models.json list drawn from the input set
MaxLoaded == 3
\* calls of loadModels on one models.json
MaxPasses == 2

\* a model of models.json: one rating in every LM Arena benchmark, one value
\* in every absolute benchmark but the two AA-Omniscience ones
LoadModel(i, kind) ==
    [id |-> i, provider |-> kind.provider,
     benchmarks |-> [k \in BenchmarkKeys |->
                        IF k \in LMArenaKeys THEN kind.rating
                        ELSE IF k = ACCURACY THEN kind.pair[1]
                        ELSE IF k = HALL_RATE THEN kind.pair[2]
                        ELSE kind.abs],
     supportsVision |-> kind.sv]

LoadKind(rating, abs, pair, provider, sv) ==
    [rating |-> rating, abs |-> abs, pair |-> pair, provider |-> provider, sv |-> sv]

LoadKinds ==
    {LoadKind(2000, 4000, <<4000, 2000>>, "A", TRUE),
     LoadKind(1500, 4000, <<NULL, NULL>>, "A", TRUE),
     LoadKind(NULL, 4000, <<2000, 4000>>, "B", FALSE),
     LoadKind(1500, 4000, <<0, 0>>, "", TRUE),
     LoadKind(100, NULL, <<3000, 5000>>, "B", TRUE)}

LoadList(kinds) == [i \in 1..Len(kinds) |-> LoadModel(i, kinds[i])]

\* five models of one provider; the fifth holds the highest ratings and
\* the lowest overall score
FiveOfOneProvider ==
    LoadList([i \in 1..5 |->
                 IF i <= 4 THEN LoadKind(1500, 8000, <<4000, 2000>>, "A", TRUE)
                 ELSE LoadKind(2000, 100, <<NULL, NULL>>, "A", TRUE)])

\* the `models` parameter of the page's URL
UrlInputs == {{}, {1}, {2, 9}}

InitLoad ==
    /\ modelsJson \in {LoadList(kinds) : kinds \in SeqsUpTo(LoadKinds, MaxLoaded)}
                          \cup {FiveOfOneProvider}
    /\ previousFinal = <<>> /\ passes = 0
    /\ dataModels = <<>>
    /\ fallbackValues = NoFallback /\ filledModels = <<>>
    /\ modelsWithScores = <<>> /\ maxModels = 20 /\ maxPerProvider = 4
    /\ defaultModelIds = {} /\ finalModels = <<>>
    /\ loadedModels = <<>> /\ selectedModelIds = {} /\ pageState = "idle"
    /\ ScoreIdle
    /\ ScriptIdle

\* a call of loadModels(defaultOnly) in which loadData succeeds: the
\* first one, or a later one on the same models.json
LoadModels(defaultOnly) ==
    /\ \/ pageState = "idle"
       \/ pageState = "loaded" /\ passes >= 1 /\ passes < MaxPasses
    /\ fallbackValues' = calculateFallbackValues(modelsJson)
    /\ filledModels' = fillMissingOmniscience(modelsJson, fallbackValues')
    /\ dataModels' = inputAfterFill(modelsJson, fallbackValues')
    /\ modelsWithScores' = inputAfterSelect(withScores(filledModels'))
    /\ defaultModelIds' = selectDefaultModels(modelsWithScores', maxModels, maxPerProvider)
    /\ finalModels' = withIsDefault(modelsWithScores', defaultModelIds')
    /\ loadedModels' = returnedModels(finalModels', defaultOnly)
    /\ pageState' = "loaded"
    /\ previousFinal' = finalModels
    /\ passes' = passes + 1
    /\ UNCHANGED <<modelsJson, maxModels, maxPerProvider, selectedModelIds, scoreVars,
                   scriptVars>>

\* loadModels when loadData throws: the catch returns []
LoadDataFails ==
    /\ pageState = "idle"
    /\ loadedModels' = <<>>
    /\ pageState' = "loaded"
    /\ UNCHANGED <<dataModels, fallbackValues, filledModels, modelsWithScores, maxModels,
                   maxPerProvider, defaultModelIds, finalModels, selectedModelIds, scoreVars,
                   passVars, scriptVars>>

idsOf(models) == {models[i].id : i \in 1..Len(models)}

\* init() after `allModels = await loadModels(false)`
InitSelection(urlModels) ==
    /\ pageState = "loaded"
    /\ IF Len(loadedModels) = 0
       THEN /\ pageState' = "error"
            /\ UNCHANGED selectedModelIds
       ELSE /\ pageState' = "ready"
            /\ selectedModelIds' =
                  IF urlModels # {}
                  THEN selectedModelIds \cup (urlModels \cap idsOf(loadedModels))
                  ELSE selectedModelIds \cup
                          {loadedModels[i].id : i \in {j \in 1..Len(loadedModels) :
                                                          loadedModels[j].isDefault}}
    /\ UNCHANGED <<dataModels, fallbackValues, filledModels, modelsWithScores, maxModels,
                   maxPerProvider, defaultModelIds, finalModels, loadedModels, scoreVars,
                   passVars, scriptVars>>

\* selectedModelIds after add / delete of the ids `changed`
toggled(selectedIds, changed, select) ==
    IF select THEN selectedIds \cup changed ELSE selectedIds \ changed

HandleModelToggle(modelId, isChecked) ==
    /\ pageState = "ready"
    /\ modelId \in idsOf(loadedModels)
    /\ selectedModelIds' = toggled(selectedModelIds, {modelId}, isChecked)
    /\ UNCHANGED <<dataModels, fallbackValues, filledModels, modelsWithScores, maxModels,
                   maxPerProvider, defaultModelIds, finalModels, loadedModels, pageState,
                   scoreVars,
                   passVars, scriptVars>>

\* selectAllModels(select); filteredOut are the models the date filter greys out
SelectAllModels(select, filteredOut) ==
    /\ pageState = "ready"
    /\ selectedModelIds' = toggled(selectedModelIds, idsOf(loadedModels) \ filteredOut, select)
    /\ UNCHANGED <<dataModels, fallbackValues, filledModels, modelsWithScores, maxModels,
                   maxPerProvider, defaultModelIds, finalModels, loadedModels, pageState,
                   scoreVars,
                   passVars, scriptVars>>

\* selectProviderModels(provider, select)
SelectProviderModels(provider, select, filteredOut) ==
    /\ pageState = "ready"
    /\ selectedModelIds' =
          toggled(selectedModelIds,
                  {loadedModels[i].id : i \in {j \in 1..Len(loadedModels) :
                                                  providerOf(loadedModels[j]) = provider}}
                      \ filteredOut,
                  select)
    /\ UNCHANGED <<dataModels, fallbackValues, filledModels, modelsWithScores, maxModels,
                   maxPerProvider, defaultModelIds, finalModels, loadedModels, pageState,
                   scoreVars,
                   passVars, scriptVars>>

NextLoad ==
    \/ \E defaultOnly \in BOOLEAN : LoadModels(defaultOnly)
    \/ LoadDataFails
    \/ \E urlModels \in UrlInputs : InitSelection(urlModels)
    \/ \E modelId \in idsOf(loadedModels), isChecked \in BOOLEAN :
          HandleModelToggle(modelId, isChecked)
    \/ \E select \in BOOLEAN, filteredOut \in SUBSET idsOf(loadedModels) :
          SelectAllModels(select, filteredOut)
    \/ \E provider \in {"A", "B", "Unknown"}, select \in BOOLEAN,
          filteredOut \in SUBSET idsOf(loadedModels) :
          SelectProviderModels(provider, select, filteredOut)

SpecLoad == InitLoad /\ [][NextLoad]_vars

----------------------------------------------------------------------------
(* fetch-lmarena.js and fetch-aa.js: fetchWithRetry, fetchLMArena, main *)

\* the `field` entries of CATEGORIES
CATEGORIES ==
    <<"LMArena-Text", "LMArena-Text-Creative-Writing", "LMArean-Text-Math",
      "LMArena-Text-Coding", "LMArena-Text-Expert", "LMArena-Text-Hard-Prompts",
      "LMArena-Text-Longer-Query", "LMArena-Text-Multi-Turn">>

\* the categories main walks through in the model
NumCategories == 2

\* the largest maxRetries handed to fetchWithRetry
MaxRetriesInput == 3

\* the three copies of fetchWithRetry: fetch-lmarena.js, the fetch-aa.js
\* that returns a result object, the fetch-aa.js that throws
Variants == {"fetch-lmarena", "fetch-aa-result", "fetch-aa-throw"}

\* what one call of fetch can do: resolve with a 200, with HTTP 429, with
\* another status, or reject
Outcomes == {"ok", "429", "status", "error"}

\* The three copies of fetchWithRetry below give, for the request made
\* with loop variable i and its outcome, how the call ends ("running" when
\* the loop goes on) and the next i.

\* the loop goes on after `continue` or after the wait in the catch block;
\* when it has run out the function ends with no return statement
nextPass(i, maxR) ==
    IF i + 1 < maxR THEN [result |-> "running", attempt |-> i + 1]
    ELSE [result |-> "undefined", attempt |-> i + 1]

\* the catch block: the last pass ends the call with `last`, any other waits
catchBlock(i, maxR, last) ==
    IF i = maxR - 1 THEN [result |-> last, attempt |-> i] ELSE nextPass(i, maxR)

\* fetch-lmarena.js: every non-OK status is returned as a result object
fetchWithRetryLMArena(outcome, i, maxR) ==
    CASE outcome = "ok" -> [result |-> "response", attempt |-> i]
      [] outcome \in {"429", "status"} -> [result |-> "result", attempt |-> i]
      [] outcome = "error" -> catchBlock(i, maxR, "result")

\* fetch-aa.js returning result objects: HTTP 429 waits and continues
fetchWithRetryAA(outcome, i, maxR) ==
    CASE outcome = "ok" -> [result |-> "response", attempt |-> i]
      [] outcome = "429" -> nextPass(i, maxR)
      [] outcome = "status" -> [result |-> "result", attempt |-> i]
      [] outcome = "error" -> catchBlock(i, maxR, "result")

\* fetch-aa.js throwing: HTTP 429 waits and continues, another status
\* throws into the catch block, which rethrows on the last pass
fetchWithRetryAAThrow(outcome, i, maxR) ==
    CASE outcome = "ok" -> [result |-> "response", attempt |-> i]
      [] outcome = "429" -> nextPass(i, maxR)
      [] outcome \in {"status", "error"} -> catchBlock(i, maxR, "thrown")

afterRequest(v, outcome, i, maxR) ==
    CASE v = "fetch-lmarena" -> fetchWithRetryLMArena(outcome, i, maxR)
      [] v = "fetch-aa-result" -> fetchWithRetryAA(outcome, i, maxR)
      [] v = "fetch-aa-throw" -> fetchWithRetryAAThrow(outcome, i, maxR)

\* the object a raw file holds; error = "" and fetchedAt = 0 stand for an
\* entry the object does not have
RawData(category, models, fetchedAt, error) ==
    [category |-> category, models |-> models, fetchedAt |-> fetchedAt, error |-> error]

NoData == RawData("", <<>>, 0, "")

\* existsSync(outputPath) is false
NoFile == [exists |-> FALSE, indent |-> 0, data |-> NoData]

\* writeFileSync(outputPath, JSON.stringify(data, null, 2)): the text of
\* the file is the data laid out with an indent of two
JSONstringify(data) == [exists |-> TRUE, indent |-> 2, data |-> data]

\* JSON.parse(readFileSync(outputPath, 'utf8')): the layout is dropped
JSONparse(file) == file.data

\* a test that lets every result through to the file
writeAlways(data) == TRUE

\* main: !data.error || data.models.length > 0
shouldWrite(data) == data.error = "" \/ Len(data.models) > 0

\* main, lines 116-122: the file of the category after `data` came back
fileAfter(file, data) == IF shouldWrite(data) THEN JSONstringify(data) ELSE file

\* fetchLMArena when the fetch failed: the existing data, or an empty
\* result that carries the error
failedResult(file, category, error) ==
    IF file.exists THEN JSONparse(file) ELSE RawData(category, <<>>, 0, error)

\* the rows a leaderboard page can be parsed into
ParsedRows == {<<>>, <<1>>, <<1, 2>>}

\* the time of a fetch; the files found at the start are older
FetchTimes == {2, 3}

\* a file an earlier run of main wrote for the category
EarlierFiles(category) ==
    {JSONstringify(RawData(category, rows, 1, "")) : rows \in {<<>>, <<1>>}}

InitFetch ==
    /\ variant \in Variants
    /\ IF variant = "fetch-lmarena"
       THEN /\ maxRetries = 3
            /\ rawFiles \in {f \in [1..NumCategories -> UNION {EarlierFiles(CATEGORIES[c]) : c \in 1..NumCategories} \cup {NoFile}] :
                               \A c \in 1..NumCategories :
                                   f[c] \in EarlierFiles(CATEGORIES[c]) \cup {NoFile}}
            /\ categoryOutcome = [c \in 1..NumCategories |-> "pending"]
       ELSE /\ maxRetries \in 1..MaxRetriesInput
            /\ rawFiles = <<>>
            /\ categoryOutcome = <<>>
    /\ rawFilesBefore = rawFiles
    /\ attempt = 0 /\ requests = 0 /\ fetchResult = "running" /\ categoryIndex = 1
    /\ baseModels = <<>> /\ usedIds = {} /\ mergedModels = <<>>
    /\ ScoreIdle /\ LoaderIdle /\ PassIdle

\* one pass of the loop of fetchWithRetry: await fetch(url, options) and
\* what follows it up to the next request or the end of the call
Request(outcome) ==
    /\ fetchResult = "running"
    /\ attempt < maxRetries
    /\ variant = "fetch-lmarena" => categoryIndex <= NumCategories
    /\ requests' = requests + 1
    /\ fetchResult' = afterRequest(variant, outcome, attempt, maxRetries).result
    /\ attempt' = afterRequest(variant, outcome, attempt, maxRetries).attempt
    /\ UNCHANGED <<variant, maxRetries, categoryIndex, rawFiles, rawFilesBefore,
                   categoryOutcome, mergeVars, scoreVars, loaderVars, passVars>>

\* fetchLMArena from `if (!response.ok)` on and main's write, when
\* fetchWithRetry returned a result object with ok: false; main then goes
\* on to the next category with a new call of fetchWithRetry
FetchFailed ==
    /\ variant = "fetch-lmarena" /\ fetchResult = "result"
    /\ rawFiles' = [rawFiles EXCEPT ![categoryIndex] =
                       fileAfter(@, failedResult(@, CATEGORIES[categoryIndex], "HTTP"))]
    /\ categoryOutcome' = [categoryOutcome EXCEPT ![categoryIndex] = "failed"]
    /\ categoryIndex' = categoryIndex + 1
    /\ attempt' = 0 /\ requests' = 0 /\ fetchResult' = "running"
    /\ UNCHANGED <<variant, maxRetries, rawFilesBefore, mergeVars, scoreVars,
                   loaderVars, passVars>>

\* fetchLMArena when response.text() rejects: the catch branch, and main's write
BodyReadFails ==
    /\ variant = "fetch-lmarena" /\ fetchResult = "response"
    /\ rawFiles' = [rawFiles EXCEPT ![categoryIndex] =
                       fileAfter(@, failedResult(@, CATEGORIES[categoryIndex], "message"))]
    /\ categoryOutcome' = [categoryOutcome EXCEPT ![categoryIndex] = "failed"]
    /\ categoryIndex' = categoryIndex + 1
    /\ attempt' = 0 /\ requests' = 0 /\ fetchResult' = "running"
    /\ UNCHANGED <<variant, maxRetries, rawFilesBefore, mergeVars, scoreVars,
                   loaderVars, passVars>>

\* fetchLMArena on a 200 whose page parses into `rows`, and main's write
FetchSucceeded(rows, now) ==
    /\ variant = "fetch-lmarena" /\ fetchResult = "response"
    /\ rawFiles' = [rawFiles EXCEPT ![categoryIndex] =
                       fileAfter(@, RawData(CATEGORIES[categoryIndex], rows, now, ""))]
    /\ categoryOutcome' = [categoryOutcome EXCEPT ![categoryIndex] = "fetched"]
    /\ categoryIndex' = categoryIndex + 1
    /\ attempt' = 0 /\ requests' = 0 /\ fetchResult' = "running"
    /\ UNCHANGED <<variant, maxRetries, rawFilesBefore, mergeVars, scoreVars,
                   loaderVars, passVars>>

NextFetch ==
    \/ \E outcome \in Outcomes : Request(outcome)
    \/ FetchFailed
    \/ BodyReadFails
    \/ \E rows \in ParsedRows, now \in FetchTimes : FetchSucceeded(rows, now)

SpecFetch == InitFetch /\ [][NextFetch]_vars

----------------------------------------------------------------------------
(* merge-data.js: the ids mergeData gives the merged models *)

\* Names, slugs and ids are sequences of one-character strings.

\* String.prototype.toLowerCase on the characters used here
toLowerCase(str) == [k \in 1..Len(str) |-> IF str[k] = "A" THEN "a" ELSE str[k]]

\* str.replace(/[...]/g, '-') for the class `chars`
replaceByDash(str, chars) ==
    [k \in 1..Len(str) |-> IF str[k] \in chars THEN "-" ELSE str[k]]

\* (...).toLowerCase().replace(/[\s\-]/g, '-')
idOfSlug(str) == replaceByDash(toLowerCase(str), {" ", "-"})

\* lmModel.model.toLowerCase().replace(/[\s\.]/g, '-')
idOfName(str) == replaceByDash(toLowerCase(str), {" ", "."})

\* the decimal digits of a number, as `${suffix}` writes them
RECURSIVE digitsOf(_)
digitsOf(n) ==
    LET digit(d) == <<"0", "1", "2", "3", "4", "5", "6", "7", "8", "9">>[d + 1]
    IN  IF n < 10 THEN <<digit(n)>> ELSE digitsOf(n \div 10) \o <<digit(n % 10)>>

\* a single try with the suffix, whether or not the id is taken
uniqueIdOneTry(base, newId, suffix, used) ==
    IF newId \notin used THEN newId ELSE base \o <<"-">> \o digitsOf(suffix)

\* let suffix = 2; while (usedIds.has(newId)) { newId = `${base}-${suffix}`; suffix++; }
RECURSIVE uniqueId(_, _, _, _)
uniqueId(base, newId, suffix, used) ==
    IF newId \notin used THEN newId
    ELSE uniqueId(base, base \o <<"-">> \o digitsOf(suffix), suffix + 1, used)

\* aaMatch.slug || aaMatch.id || lmModel.model
slugOrIdOrName(lmModel) ==
    IF lmModel.aaMatch.slug # <<>> THEN lmModel.aaMatch.slug
    ELSE IF lmModel.aaMatch.id # <<>> THEN lmModel.aaMatch.id
    ELSE lmModel.model

\* the id of the model pushed for lmModel, lines 125-141
modelIdOf(lmModel, used) ==
    IF idOfSlug(slugOrIdOrName(lmModel)) \in used
    THEN uniqueId(idOfName(lmModel.model), idOfName(lmModel.model), 2, used)
    ELSE idOfSlug(slugOrIdOrName(lmModel))

\* a base model is merged when matchModels found a match that is not too old
isMerged(lmModel) == lmModel.aaMatch.found /\ ~lmModel.aaMatch.tooOld

\* most base models in lmarena-text.json
MaxBase == 3

\* what matchModels and isModelTooOld gave for a base model; an empty slug
\* or id stands for a missing one
AAMatch(found, slug, id, tooOld) ==
    [found |-> found, slug |-> slug, id |-> id, tooOld |-> tooOld]

AAMatches ==
    {AAMatch(FALSE, <<>>, <<>>, FALSE),
     AAMatch(TRUE, <<"a">>, <<>>, TRUE),
     AAMatch(TRUE, <<"a">>, <<"x">>, FALSE),
     AAMatch(TRUE, <<>>, <<"A", " ", "2">>, FALSE),
     AAMatch(TRUE, <<>>, <<>>, FALSE)}

LMNames == {<<"a">>, <<"A">>, <<"a", ".", "2">>}

BaseModels == {[model |-> name, aaMatch |-> match] : name \in LMNames, match \in AAMatches}

InitMerge ==
    /\ baseModels \in SeqsUpTo(BaseModels, MaxBase)
    /\ usedIds = {} /\ mergedModels = <<>>
    /\ variant = "fetch-lmarena" /\ maxRetries = 3 /\ attempt = 0 /\ requests = 0
    /\ fetchResult = "running" /\ categoryIndex = 1
    /\ rawFiles = <<>> /\ rawFilesBefore = <<>> /\ categoryOutcome = <<>>
    /\ ScoreIdle /\ LoaderIdle /\ PassIdle

\* one pass of `for (const lmModel of baseModels)`
MergeLMModel ==
    /\ baseModels # <<>>
    /\ baseModels' = Tail(baseModels)
    /\ IF isMerged(Head(baseModels))
       THEN /\ usedIds' = usedIds \cup {modelIdOf(Head(baseModels), usedIds)}
            /\ mergedModels' = Append(mergedModels, modelIdOf(Head(baseModels), usedIds))
       ELSE UNCHANGED <<usedIds, mergedModels>>
    /\ UNCHANGED <<fetchVars, scoreVars, loaderVars, passVars>>

NextMerge == MergeLMModel

SpecMerge == InitMerge /\ [][NextMerge]_vars

----------------------------------------------------------------------------
(* Properties of weightedAverage (SpecWA) *)

\* the indices of the items whose value is not missing
Present(its) == {j \in 1..Len(its) : its[j].value # NULL}

\* sum of weight over the items of S; sum of value * weight over them
RECURSIVE WeightOver(_, _)
WeightOver(its, S) ==
    IF S = {} THEN 0
    ELSE LET j == CHOOSE x \in S : TRUE
         IN  its[j].weight + WeightOver(its, S \ {j})
RECURSIVE ScoreOver(_, _)
ScoreOver(its, S) ==
    IF S = {} THEN 0
    ELSE LET j == CHOOSE x \in S : TRUE
         IN  its[j].value * its[j].weight + ScoreOver(its, S \ {j})

\* r is num / den (in hundredths) rounded to two decimals: a nearest
\* hundredth, either one on a tie
IsRound2(r, num, den) == 2 * den * r - den <= 2 * num /\ 2 * num <= 2 * den * r + den

\* the list of the specification's example: (80, 2), (missing, 5), (60, 1)
ExampleItems ==
    <<[value |-> 8000, weight |-> 2], [value |-> NULL, weight |-> 5],
      [value |-> 6000, weight |-> 1]>>

\* C3: weightedAverage returns sum(value * weight) / sum(weight), rounded to
\* two decimals, both sums taken over the items whose value is not missing
\* only; the example list gives 73.33.
C3_WeightedAverageOverPresent ==
    (avg # NotRun /\ Present(items) # {}) =>
        /\ IsRound2(avg, ScoreOver(items, Present(items)), WeightOver(items, Present(items)))
        /\ (items = ExampleItems => avg = 7333)

\* a list with a missing value between two measured ones has been averaged
C3_Witness == items = ExampleItems /\ avg = 7333

\* C4: weightedAverage returns 0 when every value is missing, the empty
\* list included.
C4_AllMissingGivesZero ==
    (avg # NotRun /\ Present(items) = {}) => avg = 0

\* the specification's example (missing, 3), (missing, 1) has been averaged
C4_Witness ==
    /\ items = <<[value |-> NULL, weight |-> 3], [value |-> NULL, weight |-> 1]>>
    /\ avg = 0

----------------------------------------------------------------------------
(* Properties of normalizeLMArena (SpecNorm) *)

IsValid(s) == s # NULL /\ s # 0
\* the valid ratings of the candidate set, as a set
ValidSet(all) == {all[i] : i \in {j \in 1..Len(all) : IsValid(all[j])}}
MaxOfSet(S) == CHOOSE x \in S : \A y \in S : y <= x
\* the candidate set has two different valid ratings
HasSpread(all) == Cardinality(ValidSet(all)) >= 2
\* the rating normalized is one of the candidate set's
InSet == \E i \in 1..Len(allScores) : allScores[i] = score

\* C6: when all valid ratings of the candidate set are equal, every model
\* with a valid rating normalizes to exactly 100.
C6_NoSpreadGives100 ==
    (normalized # NotRun /\ IsValid(score) /\ Cardinality(ValidSet(allScores)) = 1)
        => normalized = 10000

\* the ratings [1500, 1500, 1500] have been normalized for one of the models
C6_Witness ==
    allScores = <<1500, 1500, 1500>> /\ score = 1500 /\ normalized = 10000

\* C7 as stated: with no valid rating in the candidate set the result is 0
\* for every model of the set.
C7_EmptyValidGivesZero ==
    (normalized # NotRun /\ InSet /\ ValidSet(allScores) = {}) => normalized = 0

\* C7 as the code has it: with no valid rating in the list, a model whose
\* own rating is missing (every model of the list is one) gets a missing
\* result, and only a valid rating, which then comes from outside the list,
\* gets 0.
C7_EmptyValidGivesMissingOrZero ==
    (normalized # NotRun /\ ValidSet(allScores) = {}) =>
        /\ (~IsValid(score) => normalized = NULL)
        /\ (IsValid(score) => normalized = 0 /\ ~InSet)
        /\ (InSet => normalized = NULL)

\* a model of a candidate set without any valid rating has been normalized
C7_Witness ==
    /\ Len(allScores) >= 2 /\ ValidSet(allScores) = {}
    /\ InSet /\ normalized = NULL

\* the candidate set's valid ratings are [1600, 1500]
AnchorExample == validScores(allScores) = <<1600, 1500>>

\* C8 as stated: with valid ratings [1600, 1500] the top model normalizes to
\* 50 and the model rated 1500 to 36.46.
C8_AnchorScale100 ==
    (normalized # NotRun /\ AnchorExample) =>
        /\ (score = 1600 => normalized = 5000)
        /\ (score = 1500 => normalized = 3646)

\* C8 on the code's scale of 200: the top model normalizes to 100 and the
\* model rated 1500 to round2(1 / (1 + 10^(100/400)) * 200) = 71.99.
C8_AnchorScale200 ==
    (normalized # NotRun /\ AnchorExample) =>
        /\ (score = 1600 => normalized = 10000)
        /\ (score = 1500 => normalized = 7199)

\* the second model of [1600, 1500] has been normalized
C8_Witness == allScores = <<1600, 1500>> /\ score = 1500 /\ normalized = 7199

\* the ratings of the set's valid models that are not above this one's get
\* no more than this one
MonotoneInRating ==
    \A r \in ValidSet(allScores) :
        r <= score => normalizeLMArena(r, allScores) <= normalized

\* C9 as stated: the model with the highest valid rating gets 100, every
\* other model with a valid rating in the set gets a value above 0 and not
\* above 100, non-decreasing in its rating.
C9_TopIs100OthersPositive ==
    (normalized # NotRun /\ IsValid(score) /\ InSet) =>
        /\ (score = MaxOfSet(ValidSet(allScores)) => normalized = 10000)
        /\ 0 < normalized /\ normalized <= 10000
        /\ MonotoneInRating

\* C9 on the code: the same, but the value of a lower model is only at
\* least 0: two-decimal rounding gives 0.00 once the rating is more than
\* 1840 points below the maximum, and a value above 0 up to there.
C9_TopIs100OthersInRange ==
    (normalized # NotRun /\ IsValid(score) /\ InSet) =>
        /\ (score = MaxOfSet(ValidSet(allScores)) => normalized = 10000)
        /\ 0 <= normalized /\ normalized <= 10000
        /\ (MaxOfSet(ValidSet(allScores)) - score <= 1840 => normalized > 0)
        /\ MonotoneInRating

\* a model 1900 points below the top of its set has been normalized, to 0.00
C9_Witness ==
    /\ score = 100 /\ InSet /\ MaxOfSet(ValidSet(allScores) \cup {score}) = 2000
    /\ normalized = 0

\* a candidate list whose valid ratings are the set S
RECURSIVE ListOf(_)
ListOf(S) ==
    IF S = {} THEN <<>>
    ELSE LET x == CHOOSE y \in S : TRUE
         IN  <<x>> \o ListOf(S \ {x})

\* every candidate set with spread and the same maximum as allScores gives
\* the rating the same value
SameMaxSameValue ==
    (normalized # NotRun /\ IsValid(score) /\ HasSpread(allScores)) =>
        \A S \in SUBSET Ratings :
            (Cardinality(S) >= 2 /\ MaxOfSet(S) = MaxOfSet(ValidSet(allScores)))
                => normalizeLMArena(score, ListOf(S)) = normalized

\* the candidate set as it was before its last model was added
Earlier == SubSeq(allScores, 1, Len(allScores) - 1)

\* the last model was added above the maximum of the set, the rating
\* normalized is a valid one of the earlier set, and its earlier value is
\* known
AddedAboveMaximum ==
    /\ previous # NotRun /\ IsValid(score)
    /\ Len(allScores) >= 1 /\ score \in ValidSet(Earlier)
    /\ IsValid(allScores[Len(allScores)])
    /\ allScores[Len(allScores)] > MaxOfSet(ValidSet(Earlier))

\* C10 as stated: the value depends only on the rating and the valid ratings
\* of the set (same maximum, both with spread: same value), and a model
\* added above the maximum changes the value of every previously valid
\* model, lowering it.
C10_AddAboveMaxChangesAll ==
    /\ SameMaxSameValue
    /\ AddedAboveMaximum => normalized < previous

\* C10 on the code: the same, but the added model never raises the value of
\* a previously valid model: it lowers it, or leaves it as it was when both
\* values round to the same two decimals.
C10_AddAboveMaxNeverRaises ==
    /\ SameMaxSameValue
    /\ AddedAboveMaximum => normalized <= previous

\* a model was added above the maximum and the value of the model rated
\* 1500 went down from 100 to 6.13
C10_Witness ==
    /\ score = 1500 /\ allScores = <<1500, 100, 2100>>
    /\ previous = 10000 /\ normalized = 613

----------------------------------------------------------------------------
(* Properties of calculateScores (Spec) *)

\* calculateScores has returned
Scored == DOMAIN scores # {}
\* the model scored is one of allModels, as in loadModels
InList == \E i \in 1..Len(allModels) : allModels[i] = model
\* the categories computed by weightedAverage
ComputedCategories == {SCORE_CATEGORIES[i] : i \in 1..Len(SCORE_CATEGORIES)}

\* every key is present and every score lies in 0..100
ScoresInRange ==
    /\ DOMAIN scores = ScoreKeys
    /\ \A c \in ScoreKeys : 0 <= scores[c] /\ scores[c] <= 10000

\* C1 as stated: every score calculateScores returns is present and within
\* 0..100, whatever list of models is passed as allModels.
C1_ScoresInRangeAnyList == Scored => ScoresInRange

\* C1 on the code: every score is present and within 0..100 when allModels
\* contains the model scored (the way loadModels calls it).
C1_ScoresInRangeOwnList == (Scored /\ InList) => ScoresInRange

\* the top model of a list of two has been scored, and reaches 100 in coding
C1_Witness ==
    /\ Scored /\ InList /\ Len(allModels) = 2
    /\ model.benchmarks["LMArena-Text-Coding"] = 2000
    /\ allModels[2].benchmarks["LMArena-Text-Coding"] = 100
    /\ scores["coding"] = 10000

\* the items of category c left after dropping the terms that satisfy Drop
ItemsWithout(c, Drop(_)) ==
    itemsOf(model, allModels, SelectSeq(categoryTerms(c), LAMBDA t : ~Drop(t)))

\* the raw value the term reads is 0, null or absent
RawMissing(t) == model.benchmarks[t.key] = NULL \/ model.benchmarks[t.key] = 0

\* C2: in every category a benchmark whose raw value is 0, null or absent
\* adds nothing to the weighted sum and nothing to the total weight, the
\* inverted hallucination-rate term included.
C2_ZeroAndNullAreMissing ==
    Scored => \A c \in ComputedCategories :
                  scores[c] = weightedAverage(ItemsWithout(c, RawMissing))

\* C5: a model whose own rating for a relative benchmark is missing gets a
\* missing result from the normalizer, and every category is the weighted
\* average of its other items, whatever the other models' ratings are.
C5_MissingRatingLeftOut ==
    Scored => \A k \in LMArenaKeys :
        (model.benchmarks[k] = NULL \/ model.benchmarks[k] = 0) =>
            /\ getLMArena(model, allModels, k) = NULL
            /\ \A c \in ComputedCategories :
                   scores[c] = weightedAverage(
                       ItemsWithout(c, LAMBDA t : t.kind = "getLMArena" /\ t.key = k))

\* a model without LMArena-Text rating, listed with a model that has one,
\* has been scored: general_knowledge is the average of its two 40.00 alone
C5_Witness ==
    /\ Scored /\ InList /\ Len(allModels) = 2
    /\ model.benchmarks["LMArena-Text"] = 0
    /\ model.benchmarks["MMLU Pro"] = 4000
    /\ allModels[2].benchmarks["LMArena-Text"] = 2000
    /\ scores["general_knowledge"] = 4000

----------------------------------------------------------------------------
(* Properties of calculateFallbackValues (SpecFallback) *)

FallbackComputed == fallbackValues # NoFallback

\* the models of models.json with a valid value of benchmark key
ValidAt(key) ==
    {i \in 1..Len(dataModels) :
        dataModels[i].benchmarks[key] # NULL /\ dataModels[i].benchmarks[key] # 0}

\* floor(n * tenths / 10), not above n - 1
RankIndex(n, tenths) ==
    LET floor == CHOOSE k \in 0..n : 10 * k <= n * tenths /\ n * tenths < 10 * (k + 1)
    IN  IF floor < n - 1 THEN floor ELSE n - 1

\* v is the element of index k (from 0) of the valid values of key in
\* ascending order: at most k valid values are below v, more than k are
\* not above it
IsElementAt(v, key, k) ==
    /\ \E i \in ValidAt(key) : dataModels[i].benchmarks[key] = v
    /\ Cardinality({i \in ValidAt(key) : dataModels[i].benchmarks[key] < v}) <= k
    /\ Cardinality({i \in ValidAt(key) : dataModels[i].benchmarks[key] <= v}) > k

IsPercentileOf(v, key, tenths) ==
    ValidAt(key) # {} =>
        IsElementAt(v, key, RankIndex(Cardinality(ValidAt(key)), tenths))

\* C12: the fallback of a benchmark is the element of index
\* min(floor(n * p), n - 1) of its n valid values in ascending order, with
\* p = 0.3 for Accuracy and p = 0.7 for Hallucination Rate
C12_FallbackIsPercentileElement ==
    FallbackComputed =>
        /\ IsPercentileOf(fallbackValues.accuracy, ACCURACY, 3)
        /\ IsPercentileOf(fallbackValues.hallRate, HALL_RATE, 7)

\* the valid Accuracy values 10, 20, 30, 40, 50 give the fallback 20
C12_Witness ==
    /\ dataModels = OmniscienceList(ExamplePairs)
    /\ fallbackValues.accuracy = 2000
    /\ fallbackValues.hallRate = 4000

\* C13: a benchmark without a single valid value has the fallback 0, and
\* the call returns a value
C13_NoValidValueGivesZero ==
    FallbackComputed =>
        /\ (ValidAt(ACCURACY) = {} => fallbackValues.accuracy = 0)
        /\ (ValidAt(HALL_RATE) = {} => fallbackValues.hallRate = 0)
        /\ fallbackValues.accuracy >= 0 /\ fallbackValues.hallRate >= 0

\* two models, no valid Hallucination Rate among them (one is 0, one absent)
C13_Witness ==
    /\ Len(dataModels) = 2
    /\ ValidAt(HALL_RATE) = {} /\ ValidAt(ACCURACY) # {}
    /\ \E i \in 1..2 : dataModels[i].benchmarks[HALL_RATE] = 0
    /\ \E i \in 1..2 : dataModels[i].benchmarks[HALL_RATE] = NULL
    /\ FallbackComputed /\ fallbackValues.hallRate = 0

----------------------------------------------------------------------------
(* Properties of selectDefaultModels (SpecSelect) *)

Selected == finalModels # <<>>

\* the models marked default, by position in finalModels
DefaultAt == {i \in 1..Len(finalModels) : finalModels[i].isDefault}

ProvidersOf(models) == {providerOf(models[i]) : i \in 1..Len(models)}

DefaultOfProvider(p) == {i \in DefaultAt : providerOf(finalModels[i]) = p}

\* provider p has at least maxPerProvider models and each of them scores
\* above every model of the other providers
Dominates(p) ==
    /\ Cardinality({i \in 1..Len(finalModels) : providerOf(finalModels[i]) = p})
          >= maxPerProvider
    /\ \A i, j \in 1..Len(finalModels) :
          (providerOf(finalModels[i]) = p /\ providerOf(finalModels[j]) # p)
              => overallOrZero(finalModels[i]) > overallOrZero(finalModels[j])

Ranked == sortByOverall(modelsWithScores)

IsSelected(m) == m.id \in defaultModelIds

\* the positions before k that were selected
SelectedBefore(k) == {j \in 1..(k - 1) : IsSelected(Ranked[j])}

\* when the model of rank k is reached there is room for it
RoomAt(k) ==
    /\ Cardinality(SelectedBefore(k)) < maxModels
    /\ Cardinality({j \in SelectedBefore(k) :
                       providerOf(Ranked[j]) = providerOf(Ranked[k])}) < maxPerProvider

\* C20: the walk is in descending overall order; a model is selected
\* exactly when there is room for it as it is reached; within a provider
\* no unselected model scores above a selected one
C20_GreedyWalk ==
    Selected =>
        /\ Len(Ranked) = Len(modelsWithScores)
        /\ idsOf(Ranked) = idsOf(modelsWithScores)
        /\ \A i, j \in 1..Len(Ranked) :
              i < j => overallOrZero(Ranked[i]) >= overallOrZero(Ranked[j])
        /\ \A k \in 1..Len(Ranked) : IsSelected(Ranked[k]) <=> RoomAt(k)
        /\ \A i, j \in 1..Len(Ranked) :
              (/\ providerOf(Ranked[i]) = providerOf(Ranked[j])
               /\ IsSelected(Ranked[i]) /\ ~IsSelected(Ranked[j]))
                  => overallOrZero(Ranked[i]) >= overallOrZero(Ranked[j])

\* a model is skipped because its provider is full and a lower-scoring
\* model of another provider is selected after it
C20_Witness ==
    /\ Selected
    /\ \E i, j \in 1..Len(Ranked) :
          /\ i < j
          /\ overallOrZero(Ranked[i]) > overallOrZero(Ranked[j])
          /\ providerOf(Ranked[i]) # providerOf(Ranked[j])
          /\ ~IsSelected(Ranked[i]) /\ IsSelected(Ranked[j])

\* the models of finalModels that score the same, the first earlier in the list
TiedInOrder(i, j) ==
    /\ i < j
    /\ overallOrZero(finalModels[i]) = overallOrZero(finalModels[j])

\* C21: of two models with the same overall score the one earlier in the
\* input list is considered first: the later one is never marked default
\* in place of the earlier one, unless the earlier one belongs to another
\* provider whose cap is reached
C21_StableTieBreak ==
    Selected =>
        \A i, j \in 1..Len(finalModels) :
            (TiedInOrder(i, j) /\ finalModels[j].isDefault /\ ~finalModels[i].isDefault)
                => /\ providerOf(finalModels[i]) # providerOf(finalModels[j])
                   /\ Cardinality(DefaultOfProvider(providerOf(finalModels[i])))
                         = maxPerProvider

\* two tied models of one provider with a cap of one: the earlier is marked
C21_Witness ==
    /\ Selected
    /\ maxPerProvider = 1 /\ maxModels >= 2
    /\ \E i, j \in 1..Len(finalModels) :
          /\ TiedInOrder(i, j)
          /\ providerOf(finalModels[i]) = providerOf(finalModels[j])
          /\ finalModels[i].isDefault /\ ~finalModels[j].isDefault

\* the provider a model is counted under, read off the record
GroupOf(m) == IF m.provider = "" THEN "Unknown" ELSE m.provider

GroupsOf(models) == {GroupOf(models[i]) : i \in 1..Len(models)}

GroupSize(models, p) == Cardinality({i \in 1..Len(models) : GroupOf(models[i]) = p})

Smaller(a, b) == IF a < b THEN a ELSE b

\* the sum over the providers ps of min(models of the provider, cap)
RECURSIVE SumOfCapped(_, _, _)
SumOfCapped(models, ps, cap) ==
    IF ps = {} THEN 0
    ELSE LET p == CHOOSE x \in ps : TRUE
         IN  Smaller(GroupSize(models, p), cap) + SumOfCapped(models, ps \ {p}, cap)

\* C25: the number of models marked default is min(maxModels, sum over
\* the providers of min(models of the provider, maxPerProvider)), the
\* models without a provider counted under 'Unknown'
C25_DefaultCount ==
    Selected =>
        Cardinality(DefaultAt) =
            Smaller(maxModels,
                    SumOfCapped(finalModels, GroupsOf(finalModels), maxPerProvider))

\* a model without provider and a model of provider 'Unknown' share a cap
\* of one, and a third model of another provider is marked as well
C25_Witness ==
    /\ Selected
    /\ maxPerProvider = 1 /\ maxModels = 3 /\ Len(finalModels) = 3
    /\ \E i, j \in 1..3 : finalModels[i].provider = "" /\ finalModels[j].provider = "Unknown"
    /\ Cardinality(DefaultAt) = 2

----------------------------------------------------------------------------
(* Properties of loadModels and of the page (SpecLoad) *)

\* the models whose scores are on display: the list loadModels returned
\* and, once the charts are drawn, the models selected on the page
Shown ==
    IF pageState = "ready" THEN getSelectedModels(loadedModels, selectedModelIds)
    ELSE loadedModels

\* the scores of every model on display are those of a computation over
\* just the models on display
ScoredAgainstShown ==
    \A i \in 1..Len(Shown) : Shown[i].scores = calculateScores(Shown[i], Shown)

\* the scores of every model on display are those loadModels computed for
\* it against the whole filled list of models.json
ScoredAgainstAll ==
    \A i \in 1..Len(Shown) :
        \E j \in 1..Len(finalModels) :
            /\ Shown[i] = finalModels[j]
            /\ filledModels[j].id = finalModels[j].id
            /\ finalModels[j].scores = calculateScores(filledModels[j], filledModels)
            /\ finalModels[j].isDefault = (finalModels[j].id \in defaultModelIds)

\* C11 as stated: a subset on display never carries normalizations that
\* were computed against another candidate set
C11_SubsetScoresRecomputed == ScoredAgainstShown

\* C11 on the code: scores and isDefault are computed once, by loadModels,
\* against all models of models.json; whatever subset is on display shows
\* those values
C11_SubsetScoresFromFullList == ScoredAgainstAll

\* a strict subset is selected on the page and a model of it carries a
\* score that differs from the one computed within the subset
C11_Witness ==
    /\ pageState = "ready"
    /\ Len(Shown) >= 1 /\ Len(Shown) < Len(loadedModels)
    /\ ScoredAgainstAll
    /\ ~ScoredAgainstShown

\* entry key of the model at position i of models.json is missing
MissingAt(i, key) ==
    dataModels[i].benchmarks[key] = NULL \/ dataModels[i].benchmarks[key] = 0

\* what fillMissingOmniscience is to leave at position i for key
FilledValue(i, key, fallback) ==
    IF MissingAt(i, key) THEN fallback ELSE dataModels[i].benchmarks[key]

\* C14: one fallback per benchmark, from all models' valid values, put in
\* exactly the missing Accuracy / Hallucination Rate entries, everything
\* else unchanged, and the two categories computed from the filled record
C14_ImputationOncePerPass ==
    FallbackComputed =>
        /\ IsPercentileOf(fallbackValues.accuracy, ACCURACY, 3)
        /\ IsPercentileOf(fallbackValues.hallRate, HALL_RATE, 7)
        /\ Len(filledModels) = Len(dataModels)
        /\ Len(modelsWithScores) = Len(dataModels)
        /\ \A i \in 1..Len(dataModels) :
              /\ filledModels[i].id = dataModels[i].id
              /\ filledModels[i].provider = dataModels[i].provider
              /\ filledModels[i].supportsVision = dataModels[i].supportsVision
              /\ \A k \in BenchmarkKeys \ {ACCURACY, HALL_RATE} :
                    filledModels[i].benchmarks[k] = dataModels[i].benchmarks[k]
              /\ filledModels[i].benchmarks[ACCURACY]
                    = FilledValue(i, ACCURACY, fallbackValues.accuracy)
              /\ filledModels[i].benchmarks[HALL_RATE]
                    = FilledValue(i, HALL_RATE, fallbackValues.hallRate)
              /\ modelsWithScores[i].benchmarks = filledModels[i].benchmarks
              /\ \A c \in {"long_context", "hallucination"} :
                    modelsWithScores[i].scores[c]
                        = weightedAverage(categoryItems(filledModels[i], filledModels, c))

\* a list with a measured, an absent and a zero Hallucination Rate: the
\* measured one is kept, the other two hold the fallback
C14_Witness ==
    /\ FallbackComputed
    /\ fallbackValues.hallRate > 0
    /\ \E i, j, k \in 1..Len(dataModels) :
          /\ dataModels[i].benchmarks[HALL_RATE] = NULL
          /\ dataModels[j].benchmarks[HALL_RATE] = 0
          /\ ~MissingAt(k, HALL_RATE)
          /\ filledModels[i].benchmarks[HALL_RATE] = fallbackValues.hallRate
          /\ filledModels[j].benchmarks[HALL_RATE] = fallbackValues.hallRate
          /\ filledModels[k].benchmarks[HALL_RATE] = dataModels[k].benchmarks[HALL_RATE]

\* the lowest measured Hallucination Rate of models.json
BestHallRate ==
    LET rates == {dataModels[i].benchmarks[HALL_RATE] : i \in ValidAt(HALL_RATE)}
    IN  CHOOSE r \in rates : \A q \in rates : r <= q

\* value * weight of one item of a category's list for model m
Contribution(m, term) == termValue(m, filledModels, term) * term.weight

\* the items of category c that read the Hallucination Rate
HallRateTerms(c) ==
    {categoryTerms(c)[n] : n \in {x \in 1..Len(categoryTerms(c)) :
                                     categoryTerms(c)[x].key = HALL_RATE}}

\* C15: where the Hallucination Rate of a model is imputed, its item in
\* long_context and in hallucination contributes no more than the lowest
\* measured rate would
C15_ImputedRateNeverRewards ==
    (FallbackComputed /\ ValidAt(HALL_RATE) # {}) =>
        \A i \in 1..Len(dataModels) :
            MissingAt(i, HALL_RATE) =>
                \A c \in {"long_context", "hallucination"} :
                    \A t \in HallRateTerms(c) :
                        Contribution(filledModels[i], t)
                            <= Contribution([filledModels[i] EXCEPT
                                               !.benchmarks[HALL_RATE] = BestHallRate], t)

\* loadModels has returned models at least once
PassDone == passes >= 1

idsInOrder(models) == [i \in 1..Len(models) |-> models[i].id]

AlteredAbsolute(m) ==
    [m EXCEPT !.benchmarks =
        [k \in BenchmarkKeys |->
            IF k \in AbsoluteKeys \ {ACCURACY, HALL_RATE}
            THEN (IF m.benchmarks[k] = NULL THEN 4000 ELSE 9000)
            ELSE m.benchmarks[k]]]

AlteredProvider(m) == [m EXCEPT !.provider = "Z"]

AlteredVision(m) == [m EXCEPT !.supportsVision = ~m.supportsVision]

Alterations(m) == {AlteredAbsolute(m), AlteredProvider(m), AlteredVision(m)}

ScoresIn(filled, i) == calculateScores(filled[i], filled)

\* the Scores the pass gives the model of position i of the list
ScoresOfPass(models, i) ==
    ScoresIn(fillMissingOmniscience(models, calculateFallbackValues(models)), i)

\* C24: changing the absolute benchmarks, the provider or supportsVision
\* of another model leaves a model's Scores as they are
C24_OtherFieldsDoNotMatter ==
    (pageState = "loaded" /\ PassDone) =>
        \A i, j \in 1..Len(modelsJson) :
            i # j =>
                \A altered \in Alterations(modelsJson[j]) :
                    ScoresOfPass([modelsJson EXCEPT ![j] = altered], i)
                        = modelsWithScores[i].scores

\* a scored model whose AA-Omniscience values were imputed, next to
\* another model with absolute benchmarks
C24_Witness ==
    /\ pageState = "loaded" /\ PassDone
    /\ \E i, j \in 1..Len(modelsJson) :
          /\ i # j
          /\ modelsJson[i].benchmarks[ACCURACY] = NULL
          /\ modelsJson[j].benchmarks["AA-LCR"] # NULL
          /\ modelsWithScores[i].scores["overall"] # NULL

----------------------------------------------------------------------------
(* Properties of the fetch scripts (SpecFetch) *)

\* the categories whose fetch has failed
FailedCategories == {c \in DOMAIN categoryOutcome : categoryOutcome[c] = "failed"}

\* C26: after a failed fetch the raw file of the category is as it was
\* when main started: the same content if it existed, no file otherwise
C26_FailedFetchPreservesFile ==
    \A c \in FailedCategories : rawFiles[c] = rawFilesBefore[c]

\* one category failed with a file of one model, another with no file
C26_Witness ==
    \E c, d \in FailedCategories :
        /\ rawFilesBefore[c].exists /\ Len(rawFilesBefore[c].data.models) = 1
        /\ ~rawFilesBefore[d].exists

\* C27: fetchWithRetry makes at most maxRetries requests and ends with a
\* response, a result object or a throw, never with undefined
C27_NeverReturnsUndefined ==
    /\ requests <= maxRetries
    /\ fetchResult \in {"running", "response", "result", "thrown"}

----------------------------------------------------------------------------
(* Properties of mergeData (SpecMerge) *)

\* C28: no two merged models have the same id, and usedIds holds exactly
\* the ids given out
C28_DistinctIds ==
    /\ \A i, j \in 1..Len(mergedModels) : i # j => mergedModels[i] # mergedModels[j]
    /\ usedIds = {mergedModels[i] : i \in 1..Len(mergedModels)}

\* three base models matched to the same Artificial Analysis model: the
\* third one's id takes the suffix 3
C28_Witness ==
    /\ baseModels = <<>> /\ Len(mergedModels) = 3
    /\ mergedModels[1] = <<"a">>
    /\ mergedModels[2] = <<"a", "-", "2">>
    /\ mergedModels[3] = <<"a", "-", "3">>

----------------------------------------------------------------------------
(* Properties of scores.overall (Spec) *)

\* the eight category scores other than vision, added up
SumWithoutVision ==
    scores["general_knowledge"] + scores["expert_knowledge"]
        + scores["general_reasoning"] + scores["math_reasoning"] + scores["coding"]
        + scores["long_context"] + scores["hallucination"] + scores["natural_speech"]

\* C16: with supportsVision = false, overall is the mean of the eight
\* category scores other than vision (vision neither added nor counted);
\* for every other model it is the mean of the nine with vision
C16_VisionLeftOutOfOverall ==
    Scored =>
        IF model.supportsVision = FALSE
        THEN IsRound2(scores["overall"], SumWithoutVision, 8)
        ELSE IsRound2(scores["overall"], SumWithoutVision + scores["vision"], 9)

\* a model without vision support whose vision score is 0: overall is the
\* mean of eight scores and lies above the mean of nine
C16_Witness ==
    /\ Scored
    /\ model.supportsVision = FALSE
    /\ scores["vision"] = 0
    /\ model.benchmarks["MMLU Pro"] = 8000
    /\ scores["overall"] > 0
    /\ ~IsRound2(scores["overall"], SumWithoutVision, 9)

\* the categories that enter overall for the model scored
Included ==
    {"general_knowledge", "expert_knowledge", "general_reasoning", "math_reasoning",
     "coding", "vision", "long_context", "hallucination", "natural_speech"}
        \ (IF model.supportsVision = FALSE THEN {"vision"} ELSE {})

RECURSIVE SumOfScores(_)
SumOfScores(S) ==
    IF S = {} THEN 0
    ELSE LET c == CHOOSE x \in S : TRUE IN scores[c] + SumOfScores(S \ {c})

\* every benchmark that category c reads is 0, null or absent for the model
AllInputsMissing(c) ==
    \A n \in 1..Len(categoryTerms(c)) : RawMissing(categoryTerms(c)[n])

\* C17: overall is round2 of the mean of exactly the included categories;
\* audio and video are not among them, and a category whose inputs are all
\* missing has the score 0 and is counted in the mean
C17_OverallIsMeanOfIncluded ==
    Scored =>
        /\ IsRound2(scores["overall"], SumOfScores(Included), Cardinality(Included))
        /\ Included \cap DisabledCategories = {}
        /\ \A c \in Included : AllInputsMissing(c) => scores[c] = 0

====
